---- MODULE Spec2Model ----
(***************************************************************************)
(* Crossword CSP solver (cs50ai-p3-crossword/generate.py):                 *)
(* CrosswordCreator.solve = enforce_node_consistency; ac3; backtrack.      *)
(* Words are sequences of letters; Python's 0-based index k is k + 1 here. *)
(***************************************************************************)
EXTENDS Integers, Sequences, FiniteSets, TLC

\* ------------------------------------------------------------------ bounds
\* Largest number of words in the dictionary handed to the solver.
MaxDict == 3
\* Longest arc list a caller hands to ac3(arcs).
MaxArcs == 2
\* How many times in a row ac3() is called on the same domains.
MaxCalls == 2

Alphabet == {"a", "b"}
WordLengths == {1, 2}
AllWords == UNION {[1..n -> Alphabet] : n \in WordLengths}
Dictionaries == {D \in SUBSET AllWords : Cardinality(D) <= MaxDict}

None == "None"
ACROSS == "across"
DOWN == "down"

\* ------------------------------------------------------------ puzzle model
Variable(i, j, direction, length) ==
    [i |-> i, j |-> j, direction |-> direction, length |-> length]

\* The grid cell under each character index k of a slot (0-based k).
Cells(v) ==
    [k \in 0..(v.length - 1) |->
        << v.i + (IF v.direction = DOWN THEN k ELSE 0),
           v.j + (IF v.direction = ACROSS THEN k ELSE 0) >>]

\* Grid shapes: one slot; two crossing slots; a chain of three; a staircase
\* of four (a chain whose inner slots have two neighbors, the outer ones one).
Single == {Variable(0, 0, ACROSS, 2)}
Cross == {Variable(0, 0, ACROSS, 2), Variable(0, 1, DOWN, 2)}
Chain == {Variable(0, 0, DOWN, 2), Variable(1, 0, ACROSS, 2),
          Variable(1, 1, DOWN, 2)}
Stair == {Variable(0, 0, ACROSS, 2), Variable(0, 1, DOWN, 2),
          Variable(1, 1, ACROSS, 2), Variable(1, 2, DOWN, 2)}
Structures == {Single, Cross, Chain, Stair}

\* The index pair of the cell two slots share, or None.
ComputeOverlap(x, y) ==
    LET common == {p \in (DOMAIN Cells(x)) \X (DOMAIN Cells(y)) :
                      Cells(x)[p[1]] = Cells(y)[p[2]]}
    IN  IF common = {} THEN None ELSE CHOOSE p \in common : TRUE

\* crossword.overlaps: the table computed once from the slots' geometry.
OverlapTable ==
    [p \in (UNION Structures) \X (UNION Structures) |-> ComputeOverlap(p[1], p[2])]

\* overlaps[x, y]
Overlaps(x, y) == OverlapTable[<<x, y>>]

\* neighbors(var): the slots that overlap var.
Neighbors(cw, var) ==
    {v \in cw.variables \ {var} : Overlaps(v, var) # None}

Crosswords == {[variables |-> s, words |-> d] : s \in Structures, d \in Dictionaries}

\* ------------------------------------------------------------- sequences
Perms(S) ==
    {p \in [1..Cardinality(S) -> S] : \A a, b \in DOMAIN p : a # b => p[a] # p[b]}

Reverse(s) == [k \in 1..Len(s) |-> s[Len(s) + 1 - k]]

VARIABLES
    crossword,  \* self.crossword: [variables, words]
    domains,    \* self.domains: slot -> set of words
    pc,         \* where solve() stands
    queue,      \* ac3's deque of arcs
    ac3_ret,    \* what ac3 returned: "None" (not yet), "True", "False"
    ac3_calls,  \* how many times ac3 has been called
    revised,    \* what the last revise call of the running ac3 returned:
                \* "None" (no call yet), "True", "False"
    earlier,    \* outcomes of ac3 on earlier creators for the same puzzle
    call,       \* the assignment passed to the backtrack call being entered
    stack,      \* the active backtrack frames: [assignment, var, values]
    result      \* what solve() returned

vars == <<crossword, domains, pc, queue, ac3_ret, ac3_calls, revised, earlier,
          call, stack, result>>

search == <<call, stack, result>>

ac3_state == <<queue, ac3_ret, ac3_calls, revised, earlier>>

NoResult == [none |-> TRUE, assignment |-> <<>>]

\* ------------------------------------------------------- domain filtering
\* __init__: every slot starts with a copy of the whole word list.
InitialDomains(cw) == [var \in cw.variables |-> cw.words]

\* Mutants: the length test admits shorter words; the filtered set is dropped.
NodeConsistentAtMost(var, domain) == {d \in domain : Len(d) <= var.length}

NodeConsistentUnfiltered(var, domain) == domain

NodeConsistent(var, domain) == {d \in domain : Len(d) = var.length}

EnforceNodeConsistency(doms) ==
    [var \in DOMAIN doms |-> NodeConsistent(var, doms[var])]

\* revise raises when the pair has no overlap (overlap[0] of None) or when a
\* word is shorter than the overlap index read from it.
ReviseRaises(doms, x, y) ==
    \/ x = y
    \/ Overlaps(x, y) = None
    \/ /\ Overlaps(x, y) # None
       /\ \/ \E dx \in doms[x] : Overlaps(x, y)[1] >= Len(dx)
          \/ doms[x] # {} /\ \E dy \in doms[y] : Overlaps(x, y)[2] >= Len(dy)

\* Mutant: the two overlap indices are swapped.
KeepSwapped(doms, x, y) ==
    {dx \in doms[x] :
        \E dy \in doms[y] :
            dx[Overlaps(x, y)[2] + 1] = dy[Overlaps(x, y)[1] + 1] /\ dx # dy}

\* Mutant: both letters are read at x's overlap index.
KeepOwnIndex(doms, x, y) ==
    {dx \in doms[x] :
        \E dy \in doms[y] :
            dx[Overlaps(x, y)[1] + 1] = dy[Overlaps(x, y)[1] + 1] /\ dx # dy}

\* The words of x that the double loop adds to `keep`.
Keep(doms, x, y) ==
    LET o_v1 == Overlaps(x, y)[1]
        o_v2 == Overlaps(x, y)[2]
    IN  {dx \in doms[x] :
            \E dy \in doms[y] : dx[o_v1 + 1] = dy[o_v2 + 1] /\ dx # dy}

\* Mutant: `revised` is set whenever `keep` is stored.
ReviseAlwaysRevised(doms, x, y) ==
    IF Keep(doms, x, y) # {}
    THEN [domains |-> [doms EXCEPT ![x] = Keep(doms, x, y)], revised |-> TRUE]
    ELSE [domains |-> doms, revised |-> FALSE]

\* Mutant: `revised` is never set.
ReviseNeverRevised(doms, x, y) ==
    IF Keep(doms, x, y) # {}
    THEN [domains |-> [doms EXCEPT ![x] = Keep(doms, x, y)], revised |-> FALSE]
    ELSE [domains |-> doms, revised |-> FALSE]

\* revise(x, y): the domains after the call and the value returned.
Revise(doms, x, y) ==
    LET keep == Keep(doms, x, y)
    IN  IF keep # {}
        THEN [domains |-> [doms EXCEPT ![x] = keep], revised |-> keep # doms[x]]
        ELSE [domains |-> doms, revised |-> FALSE]

\* Mutant: every other slot is put back, neighbor of x or not.
RequeueAllOthers(cw, x, y) == cw.variables \ {x, y}

\* Mutant: nothing is put back on the queue.
RequeueNothing(cw, x, y) == {}

\* The slots z whose arc (z, x) goes back on the queue after x shrank.
Requeue(cw, x, y) == Neighbors(cw, x) \ {y}

\* arcs = [(var, n) for var in self.domains for n in neighbors(var)]: the
\* iteration orders of the dict and of each neighbor set are hash orders, so
\* the list is one of these: the slots in any order, each followed by its
\* neighbors in any order.
DefaultArcs(cw) ==
    LET blocks == [var \in cw.variables |->
                      {[m \in 1..Len(no) |-> <<var, no[m]>>] :
                          no \in Perms(Neighbors(cw, var))}]
        \* the lists over every k slots, each with the set of slots it covers
        lists[k \in 0..Cardinality(cw.variables)] ==
            IF k = 0 THEN {<<{}, <<>>>>}
            ELSE UNION {UNION {{<<ul[1] \cup {var}, ul[2] \o b>> : b \in blocks[var]} :
                                  var \in cw.variables \ ul[1]} :
                           ul \in lists[k - 1]}
    IN  {ul[2] : ul \in lists[Cardinality(cw.variables)]}

\* DefaultArcs of each grid shape, tabulated once (it does not read the words).
DefaultArcsOf == [s \in Structures |-> DefaultArcs([variables |-> s, words |-> {}])]

\* ---------------------------------------------------------------- list.sort
\* CPython's list.sort on a short list: the leading run is found (reversed
\* when strictly descending), then every later element is placed by binary
\* insertion.  less holds the pairs <<a, b>> of elements with key(a) < key(b),
\* the `<` of the sort keys; it need not be a total order.
PySort(s, less) ==
    LET LT(a, b) == <<a, b>> \in less
        n == Len(s)
        descending == n >= 2 /\ LT(s[2], s[1])
        InRun(k) == IF descending THEN LT(s[k], s[k - 1]) ELSE ~LT(s[k], s[k - 1])
        run == IF n <= 1 THEN n
               ELSE CHOOSE r \in 2..n :
                        /\ \A k \in 3..r : InRun(k)
                        /\ r = n \/ ~InRun(r + 1)
        first == IF descending THEN Reverse(SubSeq(s, 1, run)) ELSE SubSeq(s, 1, run)
        Place(t, pivot) ==
            LET pos[lr \in (0..Len(t)) \X (0..Len(t))] ==
                    LET l == lr[1]
                        r == lr[2]
                        p == l + ((r - l) \div 2)
                    IN  IF l >= r THEN l
                        ELSE IF LT(pivot, t[p + 1]) THEN pos[<<l, p>>]
                        ELSE pos[<<p + 1, r>>]
                at == pos[<<0, Len(t)>>]
            IN  SubSeq(t, 1, at) \o <<pivot>> \o SubSeq(t, at + 1, Len(t))
        sorted[k \in run..n] ==
            IF k = run THEN first
            ELSE CHOOSE r \in {Place(t, s[k]) : t \in {sorted[k - 1]}} : TRUE
    IN  IF n = 0 THEN <<>> ELSE sorted[n]

\* ------------------------------------------------------------------ search
\* Mutant: the keys are compared with <= instead of ==.
AssignmentCompleteSubset(cw, assignment) == DOMAIN assignment \subseteq cw.variables

\* assignment_complete: the keys are exactly the slots (no value is None).
AssignmentComplete(cw, assignment) == DOMAIN assignment = cw.variables

\* Mutant: the test for a repeated word is left out.
ConsistentRepeats(cw, assignment) ==
    \A x \in DOMAIN assignment :
        \A neighbor \in Neighbors(cw, x) \cap DOMAIN assignment :
            assignment[x][Overlaps(x, neighbor)[1] + 1]
                = assignment[neighbor][Overlaps(x, neighbor)[2] + 1]

\* Mutant: both words are read at x's index.
ConsistentSameIndex(cw, assignment) ==
    \A x \in DOMAIN assignment :
        \A neighbor \in Neighbors(cw, x) \cap DOMAIN assignment :
            /\ assignment[x][Overlaps(x, neighbor)[1] + 1]
                  = assignment[neighbor][Overlaps(x, neighbor)[1] + 1]
            /\ assignment[x] # assignment[neighbor]

\* consistent: no assigned slot disagrees with, or repeats, an assigned neighbor.
Consistent(cw, assignment) ==
    \A x \in DOMAIN assignment :
        \A neighbor \in Neighbors(cw, x) \cap DOMAIN assignment :
            LET ox == Overlaps(x, neighbor)[1]
                on == Overlaps(x, neighbor)[2]
            IN  ~(\/ assignment[x][ox + 1] # assignment[neighbor][on + 1]
                  \/ assignment[x] = assignment[neighbor])

\* Mutant: the assigned neighbors are counted too.
RuledOutAllNeighbors(cw, doms, var, assignment, dx) ==
    Cardinality({nv \in UNION {{<<neighbor, value>> : value \in doms[neighbor]} :
                                  neighbor \in Neighbors(cw, var)} :
                    dx[Overlaps(var, nv[1])[1] + 1] # nv[2][Overlaps(var, nv[1])[2] + 1]})

\* The count n that order_domain_values pairs with the word dx.
RuledOut(cw, doms, var, assignment, dx) ==
    Cardinality({nv \in UNION {{<<neighbor, value>> : value \in doms[neighbor]} :
                                  neighbor \in Neighbors(cw, var) \ DOMAIN assignment} :
                    dx[Overlaps(var, nv[1])[1] + 1] # nv[2][Overlaps(var, nv[1])[2] + 1]})

\* order_domain_values: the lists it can return, one per iteration order of
\* the domain set.
OrderDomainValues(cw, doms, var, assignment) ==
    {[k \in 1..Len(sorted) |-> sorted[k][1]] :
        sorted \in UNION {
            {PySort(c, {ab \in counts \X counts : ab[1][2] < ab[2][2]}) :
                c \in Perms(counts)} :
            counts \in {{<<dx, RuledOut(cw, doms, var, assignment, dx)>> :
                            dx \in doms[var]}}}}

\* Mutant: no sort, any unassigned slot is returned.
SelectAnyUnassigned(cw, doms, assignment) == cw.variables \ DOMAIN assignment

\* select_unassigned_variable: the slots it can return, one per iteration
\* order of the set of unassigned slots.
SelectUnassignedVariable(cw, doms, assignment) ==
    LET ByNeighbors(tied) ==
            {ab \in tied \X tied :
                /\ Neighbors(cw, ab[1][1]) \subseteq Neighbors(cw, ab[2][1])
                /\ Neighbors(cw, ab[1][1]) # Neighbors(cw, ab[2][1])}
        Pick(remaining) ==
            LET min_domain == remaining[1]
                c == Cardinality({k \in 1..Len(remaining) :
                                     remaining[k][2] = min_domain[2]})
            IN  IF c = 1 THEN remaining[1][1]
                ELSE CHOOSE v \in {PySort(tied, ByNeighbors({tied[k] : k \in 1..c}))[1][1] :
                                      tied \in {SubSeq(remaining, 1, c)}} : TRUE
    IN  UNION {
            {Pick(remaining) :
                remaining \in {PySort(r, {ab \in sizes \X sizes : ab[1][2] < ab[2][2]}) :
                                  r \in Perms(sizes)}} :
            sizes \in {{<<var, Cardinality(doms[var])>> :
                          var \in cw.variables \ DOMAIN assignment}}}

Frame(assignment, var, values) ==
    [assignment |-> assignment, var |-> var, values |-> values]

Returned(assignment) == [none |-> FALSE, assignment |-> assignment]

\* Mutant: new_assignment is the caller's dict itself, not a copy.
CallerFrameAliased(frame, new_assignment, rest) ==
    [frame EXCEPT !.values = rest, !.assignment = new_assignment]

\* The calling frame after one turn of its loop: new_assignment is a copy
\* (line 279), so the frame's own assignment stays as it was.
CallerFrame(frame, new_assignment, rest) == [frame EXCEPT !.values = rest]

Init ==
    /\ crossword \in Crosswords
    /\ domains = InitialDomains(crossword)
    /\ pc = "solve"
    /\ queue = <<>>
    /\ ac3_ret = None
    /\ ac3_calls = 0
    /\ revised = None
    /\ earlier = {}
    /\ call = <<>>
    /\ stack = <<>>
    /\ result = NoResult

\* solve(), line 94
Solve_NodeConsistency ==
    /\ pc = "solve"
    /\ domains' = EnforceNodeConsistency(domains)
    /\ pc' = "ac3_call"
    /\ UNCHANGED <<crossword, ac3_state, search>>

\* ac3(arcs=None), lines 155-158
AC3_Begin ==
    /\ pc = "ac3_call"
    /\ queue' \in DefaultArcsOf[crossword.variables]
    /\ pc' = "ac3_loop"
    /\ ac3_ret' = None
    /\ ac3_calls' = ac3_calls + 1
    /\ UNCHANGED <<crossword, domains, revised, earlier, search>>

\* ac3(arcs) with a list the caller supplies, line 158
ArcLists(cw) ==
    UNION {[1..n -> {p \in cw.variables \X cw.variables : p[2] \in Neighbors(cw, p[1])}] :
              n \in 0..MaxArcs}

\* ArcLists of each grid shape, tabulated once.
ArcListsOf == [s \in Structures |-> ArcLists([variables |-> s, words |-> {}])]

AC3_BeginWith ==
    /\ pc = "ac3_call"
    /\ queue' \in ArcListsOf[crossword.variables]
    /\ pc' = "ac3_loop"
    /\ ac3_ret' = None
    /\ ac3_calls' = ac3_calls + 1
    /\ UNCHANGED <<crossword, domains, revised, earlier, search>>

\* ac3() is called again right after it returned.
AC3_Again ==
    /\ pc = "ac3_done"
    /\ ac3_calls < MaxCalls
    /\ pc' = "ac3_call"
    /\ UNCHANGED <<crossword, domains, ac3_state, search>>

\* one turn of the while loop, lines 160-166
AC3_Iterate ==
    /\ pc = "ac3_loop"
    /\ queue # <<>>
    /\ LET x == Head(queue)[1]
           y == Head(queue)[2]
       IN  IF ReviseRaises(domains, x, y)
           THEN /\ pc' = "raised"
                /\ queue' = Tail(queue)
                /\ UNCHANGED <<domains, ac3_ret, revised>>
           ELSE \E r \in {Revise(domains, x, y)} :
                    /\ domains' = r.domains
                    /\ revised' = IF r.revised THEN "True" ELSE "False"
                    /\ IF r.revised /\ Cardinality(r.domains[x]) = 0
                       THEN /\ ac3_ret' = "False"
                            /\ pc' = "ac3_done"
                            /\ queue' = Tail(queue)
                       ELSE /\ \E zs \in Perms(IF r.revised
                                               THEN Requeue(crossword, x, y)
                                               ELSE {}) :
                                 queue' = Tail(queue) \o [k \in 1..Len(zs) |-> <<zs[k], x>>]
                            /\ UNCHANGED <<pc, ac3_ret>>
    /\ UNCHANGED <<crossword, ac3_calls, earlier, search>>

\* the queue is empty, line 168
AC3_Return ==
    /\ pc = "ac3_loop"
    /\ queue = <<>>
    /\ ac3_ret' = "True"
    /\ revised' = None
    /\ pc' = "ac3_done"
    /\ UNCHANGED <<crossword, domains, queue, ac3_calls, earlier, search>>

\* solve(), line 96: backtrack(dict())
Solve_Backtrack ==
    /\ pc = "ac3_done"
    /\ call' = <<>>
    /\ pc' = "bt_call"
    /\ UNCHANGED <<crossword, domains, ac3_state, stack, result>>

\* backtrack, lines 274-275: a complete assignment is returned, and every
\* caller on the stack returns it in turn (lines 283-284).
Backtrack_Complete ==
    /\ pc = "bt_call"
    /\ AssignmentComplete(crossword, call)
    /\ result' = Returned(call)
    /\ stack' = <<>>
    /\ call' = <<>>
    /\ pc' = "done"
    /\ UNCHANGED <<crossword, domains, ac3_state>>

\* backtrack, lines 277-278: pick the slot and order its values.  The order
\* of the list depends on the iteration order of a set, which the hashes fix
\* and the model leaves open: the frame holds every list order_domain_values
\* can have returned, narrowed as the loop reveals its elements.
Backtrack_Select ==
    /\ pc = "bt_call"
    /\ ~AssignmentComplete(crossword, call)
    /\ IF crossword.variables \ DOMAIN call = {}
       THEN /\ pc' = "raised"
            /\ UNCHANGED <<call, stack>>
       ELSE \E var \in SelectUnassignedVariable(crossword, domains, call) :
                /\ stack' = Append(stack,
                       Frame(call, var, OrderDomainValues(crossword, domains, var, call)))
                /\ call' = <<>>
                /\ pc' = "bt_loop"
    /\ UNCHANGED <<crossword, domains, ac3_state, result>>

\* backtrack, lines 278-282: the next value of the innermost loop.
Backtrack_Try ==
    /\ pc = "bt_loop"
    /\ stack # <<>>
    /\ \E top \in {stack[Len(stack)]} :
       \E value \in {Head(l) : l \in {m \in top.values : m # <<>>}} :
       \E new_assignment \in {(top.var :> value) @@ top.assignment} :
           /\ stack' = [stack EXCEPT ![Len(stack)] =
                            CallerFrame(top, new_assignment,
                                {Tail(l) : l \in {m \in top.values : Head(m) = value}})]
           /\ IF Consistent(crossword, new_assignment)
              THEN call' = new_assignment /\ pc' = "bt_call"
              ELSE UNCHANGED <<call, pc>>
    /\ UNCHANGED <<crossword, domains, ac3_state, result>>

\* backtrack, line 285: the values are used up, the call returns None.
Backtrack_Fail ==
    /\ pc = "bt_loop"
    /\ stack # <<>>
    /\ stack[Len(stack)].values = {<<>>}
    /\ stack' = SubSeq(stack, 1, Len(stack) - 1)
    /\ IF Len(stack) = 1
       THEN result' = NoResult /\ pc' = "done"
       ELSE UNCHANGED <<result, pc>>
    /\ UNCHANGED <<crossword, domains, ac3_state, call>>

Next ==
    \/ Solve_NodeConsistency
    \/ AC3_Begin
    \/ AC3_Iterate
    \/ AC3_Return
    \/ Solve_Backtrack
    \/ Backtrack_Complete
    \/ Backtrack_Select
    \/ Backtrack_Try
    \/ Backtrack_Fail

Spec == Init /\ [][Next]_vars

\* enforce_node_consistency, then ac3 on the default arcs or on a list the
\* caller supplies; the program is sequential, so a step that can be taken is
\* taken.
NextArcs ==
    \/ Solve_NodeConsistency
    \/ AC3_Begin
    \/ AC3_BeginWith
    \/ AC3_Iterate
    \/ AC3_Return

SpecArcs == Init /\ [][NextArcs]_vars /\ WF_vars(NextArcs)

\* enforce_node_consistency, then ac3() MaxCalls times in a row.
NextTwice ==
    \/ Solve_NodeConsistency
    \/ AC3_Begin
    \/ AC3_Iterate
    \/ AC3_Return
    \/ AC3_Again

SpecTwice == Init /\ [][NextTwice]_vars

\* A second CrosswordCreator is built for the same puzzle (__init__), made
\* node consistent, and its ac3() is about to run; what ac3 returned and left
\* on the first creator is remembered.
AC3_OnNewCreator ==
    /\ pc = "ac3_done"
    /\ ac3_calls < MaxCalls
    /\ earlier' = earlier \cup {[ret |-> ac3_ret, domains |-> domains]}
    /\ domains' = EnforceNodeConsistency(InitialDomains(crossword))
    /\ pc' = "ac3_call"
    /\ UNCHANGED <<crossword, queue, ac3_ret, ac3_calls, revised, search>>

\* enforce_node_consistency and ac3() on one creator, then on another one
\* for the same puzzle.
NextOrders ==
    \/ Solve_NodeConsistency
    \/ AC3_Begin
    \/ AC3_Iterate
    \/ AC3_Return
    \/ AC3_OnNewCreator

SpecOrders == Init /\ [][NextOrders]_vars

\* solve() from start to end; it is sequential, so a step that can be taken
\* is taken.
FairSpec == Spec /\ WF_vars(Next)

\* ------------------------------------------------------------- properties
\* wx in slot x and wy in slot y satisfy the overlap constraint of x and y.
Compatible(x, wx, y, wy) ==
    /\ wx[Overlaps(x, y)[1] + 1] = wy[Overlaps(x, y)[2] + 1]
    /\ wx # wy

NeighborPairs(cw) ==
    {p \in cw.variables \X cw.variables : p[1] # p[2] /\ Overlaps(p[1], p[2]) # None}

\* The complete assignments over the given domains that meet every overlap constraint.
Solutions(cw, doms) ==
    {f \in [cw.variables -> UNION {doms[v] : v \in cw.variables}] :
        /\ \A v \in cw.variables : f[v] \in doms[v]
        /\ \A p \in NeighborPairs(cw) : Compatible(p[1], f[p[1]], p[2], f[p[2]])}

WordsOfLength(cw, var) == {w \in cw.words : Len(w) = var.length}

Solved == pc = "done" /\ ~result.none

\* C1: every assignment solve() returns is consistent: neighboring slots
\* agree on the letter of their shared cell and hold different words.
C1_ReturnedConsistent ==
    Solved =>
        \A x, y \in DOMAIN result.assignment :
            (x # y /\ Overlaps(x, y) # None) =>
                /\ result.assignment[x][Overlaps(x, y)[1] + 1]
                      = result.assignment[y][Overlaps(x, y)[2] + 1]
                /\ result.assignment[x] # result.assignment[y]

C1_Witness ==
    /\ Solved
    /\ crossword.variables = Stair
    /\ Cardinality({result.assignment[v] : v \in crossword.variables}) = 3

\* C2: every assignment solve() returns has exactly the puzzle's slots as
\* keys, and each slot's word is a dictionary word of the slot's length.
C2_ReturnedComplete ==
    Solved =>
        /\ DOMAIN result.assignment = crossword.variables
        /\ \A v \in crossword.variables :
              /\ result.assignment[v] \in crossword.words
              /\ Len(result.assignment[v]) = v.length

C2_Witness ==
    /\ Solved
    /\ crossword.variables = Chain
    /\ \E w \in crossword.words : Len(w) # 2

\* C3: when the domains left by AC-3 hold a complete assignment that meets
\* every overlap constraint, backtrack({}) returns an assignment, not None.
C3_SearchComplete ==
    (pc = "done" /\ Solutions(crossword, domains) # {}) => ~result.none

\* A complete assignment is about to be returned after a recursive call on
\* another (consistent) value of some slot has failed.
C3_Witness ==
    /\ pc = "bt_call"
    /\ AssignmentComplete(crossword, call)
    /\ \E k \in 1..Len(stack) :
          \E w \in domains[stack[k].var] \ {call[stack[k].var]} :
              /\ \A l \in stack[k].values : \A m \in 1..Len(l) : l[m] # w
              /\ Consistent(crossword, (stack[k].var :> w) @@ stack[k].assignment)

\* The puzzles with no complete consistent filling from the dictionary.
UnsolvableCrosswords ==
    {cw \in Crosswords :
        \A doms \in {[v \in cw.variables |-> WordsOfLength(cw, v)]} :
            Solutions(cw, doms) = {}}

Unsolvable == crossword \in UnsolvableCrosswords

\* C4: for an unsolvable puzzle solve() raises nothing, finishes, and
\* returns None.  (Whether a puzzle is unsolvable never changes during a run.)
C4_UnsolvableReturnsNone ==
    /\ [](Unsolvable => (pc # "raised" /\ (pc = "done" => result.none)))
    /\ <>(~Unsolvable \/ pc = "done")

\* Unsolvable because one slot has no word of its length / although every
\* slot has words: both end in None.
C4_Witness ==
    /\ pc = "done"
    /\ result.none
    /\ Unsolvable
    /\ Cardinality(crossword.variables) > 1
    /\ \A v \in crossword.variables : Cardinality(domains[v]) >= 2

\* C5: after enforce_node_consistency every domain is exactly the set of
\* dictionary words of the slot's length, and from then on every word of
\* every domain has the slot's length.
C5_NodeConsistency ==
    /\ pc = "ac3_call" /\ ac3_calls = 0 =>
          \A v \in crossword.variables : domains[v] = WordsOfLength(crossword, v)
    /\ pc # "solve" =>
          \A v \in crossword.variables : \A w \in domains[v] : Len(w) = v.length

C5_Witness ==
    /\ pc = "ac3_call"
    /\ \E w \in crossword.words : Len(w) = 1
    /\ \E v \in crossword.variables : domains[v] # {}

\* w in slot x has a compatible partner in the domain of the neighbor y.
Supported(doms, x, w, y) == \E v \in doms[y] : Compatible(x, w, y, v)

\* C6: whenever AC-3 removes a word from a slot's domain, some neighbor's
\* current domain holds no compatible partner for it.
C6_AC3Sound ==
    [][pc = "ac3_loop" =>
          \A x \in crossword.variables : \A w \in domains[x] \ domains'[x] :
              \E y \in Neighbors(crossword, x) : ~Supported(domains, x, w, y)]_vars

\* AC-3 has removed a word from some domain.
C6_Witness ==
    /\ pc = "ac3_loop"
    /\ \E x \in crossword.variables :
          /\ domains[x] # WordsOfLength(crossword, x)
          /\ Cardinality(Neighbors(crossword, x)) = 2

ArcConsistent(cw, doms) ==
    \A x \in cw.variables : \A w \in doms[x] : \A y \in Neighbors(cw, x) :
        Supported(doms, x, w, y)

\* C7: when ac3() returns True, every word left in a domain has a compatible
\* partner in the domain of every neighbor.
C7_TrueMeansArcConsistent ==
    (pc = "ac3_done" /\ ac3_ret = "True") => ArcConsistent(crossword, domains)

\* C8: ac3() returns False exactly when some domain is empty on return.
C8_FalseIffEmptyDomain ==
    pc = "ac3_done" =>
        (ac3_ret = "False" <=> \E v \in crossword.variables : domains[v] = {})

\* C9: AC-3 terminates, and an arc goes back on the queue only in a turn in
\* which revise strictly shrank a domain.
C9_AC3Terminates ==
    /\ <>(pc = "ac3_done")
    /\ [][(pc = "ac3_loop" /\ queue # <<>> /\ queue' # Tail(queue)) =>
             \E x \in crossword.variables :
                 domains'[x] \subseteq domains[x] /\ domains'[x] # domains[x]]_vars

\* ac3 has returned after a revise shrank a slot with two neighbors, which
\* put an arc back on the queue.
C9_Witness ==
    /\ pc = "ac3_done"
    /\ \E x \in crossword.variables :
          /\ domains[x] # WordsOfLength(crossword, x)
          /\ Cardinality(Neighbors(crossword, x)) = 2

\* C10: once ac3() has run over all arcs, running it again over all arcs
\* changes no domain.
C10_AC3Idempotent ==
    [][(ac3_calls >= 2 /\ pc = "ac3_loop") => domains' = domains]_vars

\* The second run has ended, and the first had removed words.
C10_Witness ==
    /\ ac3_calls = 2
    /\ pc = "ac3_done"
    /\ \E x \in crossword.variables : domains[x] # WordsOfLength(crossword, x)

\* C11: the order of the arcs in ac3's queue does not change what ac3 returns
\* nor the domains it leaves: two runs from the same domains end the same.
C11_QueueOrderIrrelevant ==
    pc = "ac3_done" =>
        \A e \in earlier : e.ret = ac3_ret /\ e.domains = domains

\* The slots select_unassigned_variable chose from in the call of frame f.
Unassigned(f) == crossword.variables \ DOMAIN f.assignment

\* C12: the slot select_unassigned_variable returns is unassigned and no
\* unassigned slot has a smaller domain (every active backtrack call holds
\* the slot it selected and the assignment it selected it for).
C12_MinimumRemainingValues ==
    \A k \in 1..Len(stack) :
        /\ stack[k].var \in Unassigned(stack[k])
        /\ \A v \in Unassigned(stack[k]) :
              Cardinality(domains[stack[k].var]) <= Cardinality(domains[v])

\* A slot was selected while another unassigned slot had a larger domain.
C12_Witness ==
    /\ pc = "bt_loop"
    /\ stack # <<>>
    /\ \E v \in Unassigned(stack[Len(stack)]) :
          Cardinality(domains[v]) > Cardinality(domains[stack[Len(stack)].var])

\* C13: among the unassigned slots that tie for the smallest domain, none has
\* more neighbors than the slot select_unassigned_variable returns.
C13_DegreeTieBreak ==
    \A k \in 1..Len(stack) :
        \A v \in Unassigned(stack[k]) :
            Cardinality(domains[v]) = Cardinality(domains[stack[k].var]) =>
                Cardinality(Neighbors(crossword, v))
                    <= Cardinality(Neighbors(crossword, stack[k].var))

\* How many words the word w in slot f.var eliminates: the (neighbor, value)
\* pairs over the unassigned neighbors whose letter at the overlap differs.
EliminationCount(f, w) ==
    Cardinality({nv \in (Neighbors(crossword, f.var) \ DOMAIN f.assignment) \X AllWords :
                    /\ nv[2] \in domains[nv[1]]
                    /\ w[Overlaps(f.var, nv[1])[1] + 1]
                          # nv[2][Overlaps(f.var, nv[1])[2] + 1]})

\* C14: the list order_domain_values returns holds each word of the slot's
\* domain exactly once, in non-decreasing order of elimination count.
C14_LeastConstrainingValues ==
    [][(pc = "bt_call" /\ pc' = "bt_loop") =>
          \A l \in stack'[Len(stack')].values :
              /\ Len(l) = Cardinality(domains[stack'[Len(stack')].var])
              /\ {l[k] : k \in 1..Len(l)} = domains[stack'[Len(stack')].var]
              /\ \A k \in 1..(Len(l) - 1) :
                    EliminationCount(stack'[Len(stack')], l[k])
                        <= EliminationCount(stack'[Len(stack')], l[k + 1])]_vars

\* The values of a slot with an assigned and an unassigned neighbor have
\* just been ordered, and they do not all eliminate the same number of words.
C14_Witness ==
    /\ pc = "bt_loop"
    /\ stack # <<>>
    /\ \E f \in {stack[Len(stack)]} :
          /\ \A l \in f.values : Len(l) = Cardinality(domains[f.var])
          /\ Neighbors(crossword, f.var) \cap DOMAIN f.assignment # {}
          /\ Neighbors(crossword, f.var) \ DOMAIN f.assignment # {}
          /\ \E w1, w2 \in domains[f.var] :
                EliminationCount(f, w1) < EliminationCount(f, w2)

\* ac3 is about to call revise on the arc at the head of its queue.
RevisePending == pc = "ac3_loop" /\ queue # <<>>

\* C15: revise(x, y) leaves in x's domain exactly the words that have a
\* compatible partner in y's domain, also when that leaves none.
C15_ReviseKeepsSupported ==
    [][RevisePending =>
          domains'[Head(queue)[1]] =
              {wx \in domains[Head(queue)[1]] :
                  Supported(domains, Head(queue)[1], wx, Head(queue)[2])}]_vars

\* C16: revise(x, y) returns True exactly when it removed a word from x's
\* domain, False exactly when it left it as it was, and it changes the
\* domain of no other slot.
C16_ReviseReportsChange ==
    [][RevisePending =>
          /\ revised' = "True" <=>
                /\ domains'[Head(queue)[1]] \subseteq domains[Head(queue)[1]]
                /\ domains'[Head(queue)[1]] # domains[Head(queue)[1]]
          /\ revised' = "False" <=> domains'[Head(queue)[1]] = domains[Head(queue)[1]]
          /\ \A v \in crossword.variables \ {Head(queue)[1]} :
                domains'[v] = domains[v]]_vars

\* revise has just returned True on a slot that has words left.
C16_Witness ==
    /\ pc = "ac3_loop"
    /\ revised = "True"
    /\ \E x \in crossword.variables :
          domains[x] # {} /\ domains[x] # WordsOfLength(crossword, x)

Searching == pc \in {"bt_call", "bt_loop"}

\* C17: no step of backtrack changes a domain, and the assignment of a
\* calling frame is never changed by the calls made from it.
C17_SearchLeavesDomains ==
    [][Searching =>
          /\ domains' = domains
          /\ \A k \in 1..Len(stack') :
                k <= Len(stack) => stack'[k].assignment = stack[k].assignment]_vars

\* A recursive call made for a consistent value has failed and returned to
\* its caller, whose loop goes on.
C17_Witness ==
    /\ pc = "bt_loop"
    /\ Len(stack) >= 1
    /\ \E f \in {stack[Len(stack)]} :
          \E w \in domains[f.var] :
              /\ \A l \in f.values : \A m \in 1..Len(l) : l[m] # w
              /\ Consistent(crossword, (f.var :> w) @@ f.assignment)
              /\ domains[f.var] # {w}

\* The complete consistent fillings of each puzzle from its dictionary.
FillingsOf ==
    [cw \in Crosswords |->
        CHOOSE S \in {Solutions(cw, [v \in cw.variables |-> WordsOfLength(cw, v)])} : TRUE]

Solvable == FillingsOf[crossword] # {}

\* C18: ac3 never removes a word that occurs in a complete consistent
\* filling, and solve() returns an assignment whenever a filling exists.
\* (Whether a puzzle is solvable never changes during a run.)
C18_SolveComplete ==
    /\ [](pc # "solve" =>
            \A f \in FillingsOf[crossword] :
                \A v \in crossword.variables : f[v] \in domains[v])
    /\ [](Solvable => pc # "raised" /\ (pc = "done" => ~result.none))
    /\ Solvable ~> Solved

\* solve() has returned an assignment for a puzzle with several fillings
\* after ac3 removed words.
C18_Witness ==
    /\ Solved
    /\ \E x \in crossword.variables : domains[x] # WordsOfLength(crossword, x)
    /\ Cardinality(FillingsOf[crossword]) >= 2

\* C19: every arc in ac3's queue, started from the default arc list, joins
\* two different slots that overlap, and the overlap indices lie inside
\* every word of the two domains; revise never raises.
C19_ArcsAreNeighbors ==
    /\ pc # "raised"
    /\ \A k \in 1..Len(queue) :
          /\ queue[k][1] # queue[k][2]
          /\ Overlaps(queue[k][1], queue[k][2]) # None
          /\ queue[k][1] \in Neighbors(crossword, queue[k][2])
          /\ \A w \in domains[queue[k][1]] :
                Overlaps(queue[k][1], queue[k][2])[1] < Len(w)
          /\ \A w \in domains[queue[k][2]] :
                Overlaps(queue[k][1], queue[k][2])[2] < Len(w)

\* In a grid with slots that do not overlap and a dictionary with a word too
\* short for the slots, an arc has been put back on the queue.
C19_Witness ==
    /\ pc = "ac3_loop"
    /\ revised = "True"
    /\ queue # <<>>
    /\ \E p \in crossword.variables \X crossword.variables :
          p[1] # p[2] /\ Overlaps(p[1], p[2]) = None
    /\ \E w \in crossword.words : Len(w) = 1
    /\ domains[queue[Len(queue)][2]]
          # WordsOfLength(crossword, queue[Len(queue)][2])
    /\ Cardinality(Neighbors(crossword, queue[Len(queue)][2])) = 2

====
